---- MODULE Spec2Model ----
(***************************************************************************)
(* Model of backend/server.py: the alert store (db.alerts), the CRUD       *)
(* handlers create_alert / delete_alert and the monitoring loop            *)
(* check_alerts_background.  The loop is split at its await points (find,  *)
(* send_message, update_one, sleep); the CRUD handlers run between them.   *)
(***************************************************************************)
EXTENDS Integers, Sequences, FiniteSets

\* ------------------------------------------------------------------ bounds
MaxAlerts == 2        \* number of alerts ever created (ids are 1..MaxAlerts)
MaxDelivered == 2     \* the delivery counter saturates here ("two or more")
EvalMaxValue == 2     \* EvalSpec: thresholds are -EvalMaxValue..EvalMaxValue
EvalMaxPrice == 3     \* EvalSpec: Close prices are 0..EvalMaxPrice

FindLimit == 1000     \* to_list(1000)

None == "None"         \* triggered_at: Optional[datetime] = None
TS == "timestamp"      \* datetime.now(timezone.utc).isoformat()

Ids == 1..MaxAlerts
Symbols == {"THYAO.IS"}
ChatIds == {"chat1"}
\* alert_type is any string: the four kinds and one that is none of them
AlertTypes == {"price_above", "price_below", "percent_up", "percent_down", "other"}
\* what the loop model creates and fetches: a price kind, a percent kind and an
\* unknown kind, one threshold, two prices: each kind triggers on some samples
\* and not on others (every kind and threshold is evaluated over EvalValues and
\* EvalHists under EvalSpec)
LoopAlertTypes == {"price_above", "percent_down", "other"}
Values == {1}
Prices == {0, 1}
EvalValues == (0 - EvalMaxValue)..EvalMaxValue
EvalPrices == 0..EvalMaxPrice

\* ticker.history(period="2d"): the Close column, oldest row first
HistsOver(P) == {<<>>} \cup {<<p>> : p \in P} \cup {<<q, p>> : q \in P, p \in P}
Hists == HistsOver(Prices)
EvalHists == HistsOver(EvalPrices)

VARIABLES
    telegram_bot,    \* TRUE iff TELEGRAM_BOT_TOKEN was set at import
    db_alerts,       \* the alerts collection: id -> document
    nextId,          \* next fresh id (uuid4 never repeats)
    pc,              \* position of check_alerts_background
    alerts,          \* the loop's snapshot (list of documents)
    idx,             \* position of the for loop in alerts (1-based)
    message,         \* the message rendered for the alert about to be notified
    delivered,       \* history: successful send_message calls per alert id
    commitFailed,    \* history: ids whose update_one raised
    sentOk,          \* history: ids sent successfully since the last snapshot read
    failedDelivery,  \* history: ids whose send raised since the last snapshot read
    attempted,       \* history: ids whose quote fetch was started since the last read
    recording,       \* TRUE iff the two history variables below are kept
    outcome,         \* history: how the last fetch-and-evaluate of this cycle ended
    fetched,         \* history: the Close rows that fetch returned
    evAlert,         \* EvalSpec: the alert under evaluation
    evHist,          \* EvalSpec: the Close rows of the sample
    evOut            \* EvalSpec: the result (outcome "none" before the call)

loopVars == <<pc, alerts, idx, message>>
histVars == <<delivered, commitFailed, sentOk, failedDelivery, attempted,
              recording, outcome, fetched>>
evVars == <<evAlert, evHist, evOut>>
vars == <<telegram_bot, db_alerts, nextId, pc, alerts, idx, message,
          delivered, commitFailed, sentOk, failedDelivery, attempted,
          recording, outcome, fetched, evAlert, evHist, evOut>>

\* ------------------------------------------------------------ pure helpers
\* class Alert: the document create_alert stores
NewAlert(id, symbol, alert_type, value, chat_id) ==
    [id |-> id, symbol |-> symbol, alert_type |-> alert_type, value |-> value,
     chat_id |-> chat_id, is_active |-> TRUE, triggered_at |-> None]

\* variant: the $set leaves is_active out
MarkTriggeredStillActive(doc) == [doc EXCEPT !.triggered_at = TS]

\* variant: the $set leaves triggered_at out
MarkTriggeredNoTimestamp(doc) == [doc EXCEPT !.is_active = FALSE]

\* the $set of update_one: is_active False, triggered_at now
MarkTriggered(doc) == [doc EXCEPT !.is_active = FALSE, !.triggered_at = TS]

\* the largest id in the collection (0 when it is empty)
LastId(store) ==
    IF DOMAIN store = {} THEN 0
    ELSE CHOOSE m \in DOMAIN store : \A j \in DOMAIN store : j <= m

\* a slot of the collection whose document was deleted
Deleted == [is_active |-> FALSE, deleted |-> TRUE]

\* the collection in insertion (id) order, deleted documents marked
Slots(store) ==
    [i \in 1..LastId(store) |-> IF i \in DOMAIN store THEN store[i] ELSE Deleted]

\* cursor.to_list(1000): at most the first FindLimit documents
ToList(docs) == IF Len(docs) <= FindLimit THEN docs ELSE SubSeq(docs, 1, FindLimit)

\* variant: find({}) without the is_active filter
ListAll(store) == ToList(SelectSeq(Slots(store), LAMBDA d : d # Deleted))

\* db.alerts.find({"is_active": True}).to_list(1000): the documents with
\* is_active == True in insertion (id) order, cut at FindLimit
ListActive(store) == ToList(SelectSeq(Slots(store), LAMBDA d : d.is_active))

SnapshotIds(s) == {s[i].id : i \in 1..Len(s)}

\* change_percent is the exact quotient num/den (the code uses floats)
Rat(n, d) == [num |-> n, den |-> d]
RatGeq(r, v) == IF r.den > 0 THEN r.num >= v * r.den ELSE r.num <= v * r.den
RatLeq(r, v) == IF r.den > 0 THEN r.num <= v * r.den ELSE r.num >= v * r.den

\* hist.empty or len(hist) < 1
HistEmpty(h) == Len(h) < 1
\* float(hist['Close'].iloc[-1])
CurrentPrice(h) == h[Len(h)]
\* variant: a zero previous close does not raise
DivisionNeverRaises(h) == Len(h) > 1 /\ h[Len(h) - 1] = 0 /\ h[Len(h)] < 0

\* len(hist) > 1 and prev_close == 0: the division raises ZeroDivisionError
DivisionRaises(h) == Len(h) > 1 /\ h[Len(h) - 1] = 0
\* variant: the default without a previous close is 100.0 instead of 0.0
ChangePercentNoDefault(h) ==
    IF Len(h) > 1
    THEN [num |-> (h[Len(h)] - h[Len(h) - 1]) * 100, den |-> h[Len(h) - 1]]
    ELSE [num |-> 100, den |-> 1]

\* change_percent = 0.0, or ((current_price - prev_close) / prev_close) * 100
ChangePercent(h) ==
    IF Len(h) > 1
    THEN Rat((CurrentPrice(h) - h[Len(h) - 1]) * 100, h[Len(h) - 1])
    ELSE Rat(0, 1)

\* the content fields of the f-string templates
Message(kind, alert, current_price, change_percent) ==
    [kind |-> kind, symbol |-> alert.symbol, price |-> current_price,
     target |-> alert.value, change |-> change_percent]

\* message = ""
NoMessage == [kind |-> "", symbol |-> "", price |-> 0, target |-> 0, change |-> Rat(0, 1)]

\* variant: price_above compares with > instead of >=
EvaluateStrict(alert, current_price, change_percent) ==
    IF alert.alert_type = "price_above" /\ current_price > alert.value
    THEN [triggered |-> TRUE,
          message |-> Message("price_above", alert, current_price, change_percent)]
    ELSE IF alert.alert_type = "price_below" /\ current_price <= alert.value
    THEN [triggered |-> TRUE,
          message |-> Message("price_below", alert, current_price, change_percent)]
    ELSE IF alert.alert_type = "percent_up" /\ RatGeq(change_percent, alert.value)
    THEN [triggered |-> TRUE,
          message |-> Message("percent_up", alert, current_price, change_percent)]
    ELSE IF alert.alert_type = "percent_down" /\ RatLeq(change_percent, 0 - alert.value)
    THEN [triggered |-> TRUE,
          message |-> Message("percent_down", alert, current_price, change_percent)]
    ELSE [triggered |-> FALSE, message |-> NoMessage]

\* the if/elif chain: the trigger decision and the rendered message
Evaluate(alert, current_price, change_percent) ==
    IF alert.alert_type = "price_above" /\ current_price >= alert.value
    THEN [triggered |-> TRUE,
          message |-> Message("price_above", alert, current_price, change_percent)]
    ELSE IF alert.alert_type = "price_below" /\ current_price <= alert.value
    THEN [triggered |-> TRUE,
          message |-> Message("price_below", alert, current_price, change_percent)]
    ELSE IF alert.alert_type = "percent_up" /\ RatGeq(change_percent, alert.value)
    THEN [triggered |-> TRUE,
          message |-> Message("percent_up", alert, current_price, change_percent)]
    ELSE IF alert.alert_type = "percent_down" /\ RatLeq(change_percent, 0 - alert.value)
    THEN [triggered |-> TRUE,
          message |-> Message("percent_down", alert, current_price, change_percent)]
    ELSE [triggered |-> FALSE, message |-> NoMessage]

\* the body of the inner try up to `if triggered`: "skip" (continue on an empty
\* result), "raise" (caught by the inner except) or the evaluation
CheckAlert(alert, h) ==
    IF HistEmpty(h)
    THEN [outcome |-> "skip", triggered |-> FALSE, message |-> NoMessage]
    ELSE IF DivisionRaises(h)
    THEN [outcome |-> "raise", triggered |-> FALSE, message |-> NoMessage]
    ELSE LET e == Evaluate(alert, CurrentPrice(h), ChangePercent(h))
         IN  [outcome |-> "evaluated", triggered |-> e.triggered, message |-> e.message]

\* the delivery counter counts up to MaxDelivered and stays there
Bump(n) == IF n < MaxDelivered THEN n + 1 ELSE n

NoAlert == NewAlert(0, "", "", 0, "")
NoOut == [outcome |-> "none", triggered |-> FALSE, message |-> NoMessage]

\* ------------------------------------------------------------------- Init
\* the module has been imported and startup_event has created the loop task
Init ==
    /\ telegram_bot \in BOOLEAN
    /\ db_alerts = <<>>
    /\ nextId = 1
    /\ pc = "top"
    /\ alerts = <<>>
    /\ idx = 1
    /\ message = NoMessage
    /\ delivered = [i \in Ids |-> 0]
    /\ commitFailed = {}
    /\ sentOk = {}
    /\ failedDelivery = {}
    /\ attempted = {}
    /\ recording = FALSE
    /\ outcome = "none"
    /\ fetched = <<>>
    /\ evAlert = NoAlert
    /\ evHist = <<>>
    /\ evOut = NoOut

\* ------------------------------------------------------------ CRUD layer
\* insert_one(doc)
InsertOne(store, doc) ==
    [i \in DOMAIN store \cup {doc.id} |-> IF i = doc.id THEN doc ELSE store[i]]

\* delete_one({"id": alert_id}): deleted_count is 0 when no document matches
DeleteOne(store, alert_id) == [i \in DOMAIN store \ {alert_id} |-> store[i]]

\* POST /api/alerts
create_alert ==
    /\ nextId <= MaxAlerts
    /\ \E symbol \in Symbols, alert_type \in LoopAlertTypes, value \in Values,
          chat_id \in ChatIds :
          db_alerts' = InsertOne(db_alerts,
                                 NewAlert(nextId, symbol, alert_type, value, chat_id))
    /\ nextId' = nextId + 1
    /\ UNCHANGED <<telegram_bot, loopVars, histVars, evVars>>

\* DELETE /api/alerts/{alert_id}: an unknown id is a 404 and changes nothing
delete_alert ==
    /\ \E alert_id \in Ids : db_alerts' = DeleteOne(db_alerts, alert_id)
    /\ UNCHANGED <<telegram_bot, nextId, loopVars, histVars, evVars>>

\* ------------------------------------------------------- monitoring loop
\* `alert` of `for alert in alerts`
Current == alerts[idx]

\* variant: the idle branch falls through to the find
CycleIdleFallsThrough ==
    /\ pc = "top"
    /\ ~telegram_bot
    /\ alerts' = ListActive(db_alerts)
    /\ idx' = 1
    /\ pc' = "for"
    /\ UNCHANGED <<telegram_bot, db_alerts, nextId, message, histVars, evVars>>

\* if not telegram_bot: await asyncio.sleep(30); continue
CycleIdle ==
    /\ pc = "top"
    /\ ~telegram_bot
    /\ pc' = "sleep_idle"
    /\ UNCHANGED <<telegram_bot, db_alerts, nextId, alerts, idx, message,
                   histVars, evVars>>

\* alerts = await db.alerts.find({"is_active": True}).to_list(1000)
FindActive ==
    /\ pc = "top"
    /\ telegram_bot
    /\ alerts' = ListActive(db_alerts)
    /\ idx' = 1
    /\ pc' = "for"
    /\ sentOk' = {}
    /\ failedDelivery' = {}
    /\ attempted' = {}
    /\ outcome' = "none"
    /\ fetched' = <<>>
    /\ UNCHANGED <<telegram_bot, db_alerts, nextId, message,
                   delivered, commitFailed, recording, evVars>>

\* variant: no outer except, the exception ends the task
FindRaisesUncaught ==
    /\ pc = "top"
    /\ telegram_bot
    /\ pc' = "crashed"
    /\ UNCHANGED <<telegram_bot, db_alerts, nextId, alerts, idx, message,
                   histVars, evVars>>

\* the find raises: caught by the outer except, which sleeps
FindRaises ==
    /\ pc = "top"
    /\ telegram_bot
    /\ pc' = "sleep_err"
    /\ UNCHANGED <<telegram_bot, db_alerts, nextId, alerts, idx, message,
                   histVars, evVars>>

\* what the history variable outcome holds after a pass that ended with o
Kept(o) == IF recording THEN o ELSE "none"

\* variant: no inner except, the exception reaches the outer one
FetchRaisesAbort ==
    /\ pc = "for"
    /\ idx <= Len(alerts)
    /\ attempted' = attempted \cup {alerts[idx].id}
    /\ outcome' = Kept("fetch_raised")
    /\ fetched' = <<>>
    /\ pc' = "sleep_err"
    /\ UNCHANGED <<telegram_bot, db_alerts, nextId, alerts, idx, message,
                   delivered, commitFailed, sentOk, failedDelivery, recording, evVars>>

\* variant: the inner except deactivates the alert whose fetch failed
FetchRaisesDisables ==
    /\ pc = "for"
    /\ idx <= Len(alerts)
    /\ attempted' = attempted \cup {Current.id}
    /\ outcome' = Kept("fetch_raised")
    /\ fetched' = <<>>
    /\ idx' = idx + 1
    /\ db_alerts' = [i \in DOMAIN db_alerts |->
                       IF i = Current.id THEN [db_alerts[i] EXCEPT !.is_active = FALSE,
                                                                   !.triggered_at = TS]
                       ELSE db_alerts[i]]
    /\ UNCHANGED <<telegram_bot, nextId, pc, alerts, message,
                   delivered, commitFailed, sentOk, failedDelivery, recording, evVars>>

\* ticker.history raises: caught by the inner except, continue
FetchRaises ==
    /\ pc = "for"
    /\ idx <= Len(alerts)
    /\ attempted' = attempted \cup {Current.id}
    /\ outcome' = Kept("fetch_raised")
    /\ fetched' = <<>>
    /\ idx' = idx + 1
    /\ UNCHANGED <<telegram_bot, db_alerts, nextId, pc, alerts, message,
                   delivered, commitFailed, sentOk, failedDelivery, recording, evVars>>

\* how the pass over the alert ended: "skip" (empty result), "raise" (the
\* division), "triggered" or "not_triggered"
Outcome(c) ==
    IF c.outcome = "evaluated"
    THEN (IF c.triggered THEN "triggered" ELSE "not_triggered")
    ELSE c.outcome

\* variant: a trigger commits without sending
AfterCheckNoSend(c) == IF c.outcome = "evaluated" /\ c.triggered THEN "update" ELSE "for"

\* variant: the send is not guarded by `if triggered`
AfterCheckAlwaysSend(c) == IF c.outcome = "evaluated" THEN "send" ELSE "for"

\* `if triggered:` leads to the send; a skip, a raise or no trigger to the next alert
AfterCheck(c) == IF c.outcome = "evaluated" /\ c.triggered THEN "send" ELSE "for"

\* ticker.history returns; the code up to `if triggered` runs without an await
\* (hist, current_price and change_percent live only inside this step)
FetchEvaluate ==
    /\ pc = "for"
    /\ idx <= Len(alerts)
    /\ \E h \in Hists :
          LET c == CheckAlert(Current, h)
          IN  /\ message' = c.message
              /\ outcome' = Kept(Outcome(c))
              /\ fetched' = IF recording THEN h ELSE <<>>
              /\ pc' = AfterCheck(c)
              /\ idx' = IF pc' = "for" THEN idx + 1 ELSE idx
    /\ attempted' = attempted \cup {Current.id}
    /\ UNCHANGED <<telegram_bot, db_alerts, nextId, alerts,
                   delivered, commitFailed, sentOk, failedDelivery, recording, evVars>>

\* await telegram_bot.send_message(...) returns; message is not read again
SendMessage ==
    /\ pc = "send"
    /\ delivered' = [delivered EXCEPT ![Current.id] = Bump(@)]
    /\ sentOk' = sentOk \cup {Current.id}
    /\ message' = NoMessage
    /\ pc' = "update"
    /\ UNCHANGED <<telegram_bot, db_alerts, nextId, alerts, idx,
                   commitFailed, failedDelivery, attempted, recording, outcome, fetched,
                   evVars>>

\* variant: a failed send still reaches the update_one
AfterSendRaisesCommit == "update"

\* variant: a failed send is tried again at once
AfterSendRaisesRetry == "send"

\* where the loop goes when send_message raises: the inner except, continue
AfterSendRaises == "for"

\* await telegram_bot.send_message(...) raises
SendRaises ==
    /\ pc = "send"
    /\ failedDelivery' = failedDelivery \cup {Current.id}
    /\ message' = NoMessage
    /\ pc' = AfterSendRaises
    /\ idx' = IF pc' = "for" THEN idx + 1 ELSE idx
    /\ UNCHANGED <<telegram_bot, db_alerts, nextId, alerts,
                   delivered, commitFailed, sentOk, attempted, recording, outcome, fetched,
                   evVars>>

\* variant: update_one with upsert, a missing document is created
UpdateStoreUpsert(store, id) ==
    [i \in DOMAIN store \cup {id} |->
        IF i = id
        THEN IF i \in DOMAIN store THEN MarkTriggered(store[i])
             ELSE MarkTriggered(NewAlert(id, "THYAO.IS", "other", 1, "chat1"))
        ELSE store[i]]

\* variant: the filter matches on the symbol instead of the id, so the first
\* document with the alert's symbol is updated
UpdateStoreBySymbol(store, id) ==
    IF id \notin DOMAIN store THEN store
    ELSE LET first == CHOOSE i \in DOMAIN store :
                         /\ store[i].symbol = store[id].symbol
                         /\ \A j \in DOMAIN store :
                               store[j].symbol = store[id].symbol => i <= j
         IN  [i \in DOMAIN store |-> IF i = first THEN MarkTriggered(store[i]) ELSE store[i]]

\* update_one({"id": id}, {"$set": ...}): no matching document is a no-op
UpdateStore(store, id) ==
    [i \in DOMAIN store |-> IF i = id THEN MarkTriggered(store[i]) ELSE store[i]]

\* await db.alerts.update_one(...) returns
UpdateOne ==
    /\ pc = "update"
    /\ db_alerts' = UpdateStore(db_alerts, Current.id)
    /\ pc' = "for"
    /\ idx' = idx + 1
    /\ UNCHANGED <<telegram_bot, nextId, alerts, message, histVars, evVars>>

\* await db.alerts.update_one(...) raises: the inner except, continue
UpdateRaises ==
    /\ pc = "update"
    /\ commitFailed' = commitFailed \cup {Current.id}
    /\ pc' = "for"
    /\ idx' = idx + 1
    /\ UNCHANGED <<telegram_bot, db_alerts, nextId, alerts, message,
                   delivered, sentOk, failedDelivery, attempted, recording, outcome, fetched,
                   evVars>>

\* variant: the cycle ends without the sleep
LoopDoneNoSleep ==
    /\ pc = "for"
    /\ idx > Len(alerts)
    /\ pc' = "top"
    /\ alerts' = <<>>
    /\ idx' = 1
    /\ sentOk' = {}
    /\ attempted' = {}
    /\ outcome' = "none"
    /\ fetched' = <<>>
    /\ UNCHANGED <<telegram_bot, db_alerts, nextId, message,
                   delivered, commitFailed, failedDelivery, recording, evVars>>

\* the for loop is exhausted: await asyncio.sleep(30).  The snapshot is not
\* read again before the next find assigns it, so the model drops it here.
LoopDone ==
    /\ pc = "for"
    /\ idx > Len(alerts)
    /\ pc' = "sleep_done"
    /\ alerts' = <<>>
    /\ idx' = 1
    /\ sentOk' = {}
    /\ attempted' = {}
    /\ outcome' = "none"
    /\ fetched' = <<>>
    /\ UNCHANGED <<telegram_bot, db_alerts, nextId, message,
                   delivered, commitFailed, failedDelivery, recording, evVars>>

\* the three asyncio.sleep(30) calls: idle mode, end of cycle, outer except
SleepPcs == {"sleep_idle", "sleep_done", "sleep_err"}

\* asyncio.sleep(30) returns and `while True` starts the next cycle
Sleep ==
    /\ pc \in SleepPcs
    /\ pc' = "top"
    /\ UNCHANGED <<telegram_bot, db_alerts, nextId, alerts, idx, message,
                   histVars, evVars>>

\* one step of check_alerts_background
Loop ==
    \/ CycleIdle
    \/ FindActive
    \/ FindRaises
    \/ FetchRaises
    \/ FetchEvaluate
    \/ SendMessage
    \/ SendRaises
    \/ UpdateOne
    \/ UpdateRaises
    \/ LoopDone
    \/ Sleep

Next ==
    \/ create_alert
    \/ delete_alert
    \/ Loop

Spec == Init /\ [][Next]_vars

\* the event loop keeps running the task, and every await of the loop
\* eventually returns or raises
FairSpec == Spec /\ WF_vars(Loop)

\* the same program, with the history variables outcome and fetched kept
TraceInit ==
    /\ telegram_bot \in BOOLEAN
    /\ db_alerts = <<>>
    /\ nextId = 1
    /\ pc = "top"
    /\ alerts = <<>>
    /\ idx = 1
    /\ message = NoMessage
    /\ delivered = [i \in Ids |-> 0]
    /\ commitFailed = {}
    /\ sentOk = {}
    /\ failedDelivery = {}
    /\ attempted = {}
    /\ recording = TRUE
    /\ outcome = "none"
    /\ fetched = <<>>
    /\ evAlert = NoAlert
    /\ evHist = <<>>
    /\ evOut = NoOut

TraceSpec == TraceInit /\ [][Next]_vars

\* a store that holds one alert more than to_list returns: FindLimit alerts of
\* an unknown kind, created first, and one more alert (price_above, or of an
\* unknown kind too) created last; no request reaches the CRUD layer
LastAlert == FindLimit + 1

LimitInit ==
    /\ telegram_bot = TRUE
    /\ \E kind \in {"price_above", "other"} :
          db_alerts = [i \in 1..LastAlert |->
                         NewAlert(i, "THYAO.IS",
                                  IF i = LastAlert THEN kind ELSE "other",
                                  1, "chat1")]
    /\ nextId = LastAlert + 1
    /\ pc = "top"
    /\ alerts = <<>>
    /\ idx = 1
    /\ message = NoMessage
    /\ delivered = [i \in 1..LastAlert |-> 0]
    /\ commitFailed = {}
    /\ sentOk = {}
    /\ failedDelivery = {}
    /\ attempted = {}
    /\ recording = FALSE
    /\ outcome = "none"
    /\ fetched = <<>>
    /\ evAlert = NoAlert
    /\ evHist = <<>>
    /\ evOut = NoOut

\* the steps of the loop that this store allows
LimitNext ==
    \/ FindActive
    \/ FindRaises
    \/ FetchRaises
    \/ FetchEvaluate
    \/ LoopDone
    \/ Sleep

LimitSpec == LimitInit /\ [][LimitNext]_vars

\* the event loop keeps running the task
LimitFairSpec == LimitSpec /\ WF_vars(LimitNext)

\* ------------------------------------------------- the evaluator on its own
\* any alert document and any sample within the bounds
EvalInit ==
    /\ telegram_bot = TRUE
    /\ db_alerts = <<>>
    /\ nextId = 1
    /\ pc = "top"
    /\ alerts = <<>>
    /\ idx = 1
    /\ message = NoMessage
    /\ delivered = [i \in Ids |-> 0]
    /\ commitFailed = {}
    /\ sentOk = {}
    /\ failedDelivery = {}
    /\ attempted = {}
    /\ recording = FALSE
    /\ outcome = "none"
    /\ fetched = <<>>
    /\ evAlert \in {NewAlert(1, s, t, v, c) :
                      s \in Symbols, t \in AlertTypes, v \in EvalValues, c \in ChatIds}
    /\ evHist \in EvalHists
    /\ evOut = NoOut

\* one pass of the inner try over evAlert and evHist
EvalApply ==
    /\ evOut = NoOut
    /\ evOut' = CheckAlert(evAlert, evHist)
    /\ UNCHANGED <<telegram_bot, db_alerts, nextId, loopVars, histVars, evAlert, evHist>>

EvalNext == EvalApply

EvalSpec == EvalInit /\ [][EvalNext]_vars

\* ------------------------------------------------------------ properties
Stored == DOMAIN db_alerts
\* the step sets is_active of stored alert id from True to False
CommitStep(id) ==
    /\ id \in Stored /\ db_alerts[id].is_active
    /\ id \in DOMAIN db_alerts' /\ ~db_alerts'[id].is_active
\* the step is the snapshot read of a new cycle
SnapshotRead == pc = "top" /\ pc' = "for"
\* the loop is handling alerts[idx]
Handling == pc \in {"send", "update"} \/ (pc = "for" /\ idx <= Len(alerts))

\* C1: the loop commits an alert (is_active False, triggered_at set) only in
\* the update_one that follows a successful send for that same alert in the
\* same cycle, and no stored alert is triggered without a delivered notification.
C1_NotifyBeforeCommit ==
    /\ [](\A id \in Stored : ~db_alerts[id].is_active => delivered[id] >= 1)
    /\ [][\A id \in Ids : CommitStep(id) =>
             /\ pc = "update"
             /\ Current.id = id
             /\ id \in sentOk]_vars

C1_Witness ==
    \E id \in Stored : ~db_alerts[id].is_active /\ id \in sentOk /\ delivered[id] = 1

\* C2: an alert whose delivery failed stays active for the rest of the cycle
\* and through the sleep unless it is deleted, and the next snapshot read
\* contains it if it is still stored.
C2_FailedDeliveryStaysActive ==
    /\ [](\A id \in failedDelivery : id \in Stored => db_alerts[id].is_active)
    /\ [][SnapshotRead =>
             \A id \in failedDelivery : id \in Stored => id \in SnapshotIds(alerts')]_vars

\* the cycle is over, the next snapshot read is due, the alert is still active
C2_Witness ==
    /\ pc = "top"
    /\ \E id \in failedDelivery : id \in Stored /\ db_alerts[id].is_active

\* C3 as stated: no alert id ever has more than one delivered notification,
\* and a triggered alert has exactly one.
C3_AtMostOneDelivery ==
    \A id \in Ids :
        /\ delivered[id] <= 1
        /\ (id \in Stored /\ ~db_alerts[id].is_active) => delivered[id] = 1

\* C3 amended: a triggered alert has at least one delivered notification, and
\* an alert id has more than one only if an update_one for it raised.
C3_DuplicateOnlyAfterFailedCommit ==
    \A id \in Ids :
        /\ (id \in Stored /\ ~db_alerts[id].is_active) => delivered[id] >= 1
        /\ delivered[id] > 1 => id \in commitFailed

C3_Witness ==
    \E id \in Stored :
        ~db_alerts[id].is_active /\ delivered[id] = 2 /\ id \in commitFailed

\* C4: the per-alert part of a cycle is left only by exhausting the snapshot:
\* no step taken while the snapshot is being handled (a failed or empty fetch,
\* a failed send, a failed commit included) leads to a sleep except the end of
\* the for loop, and by then a fetch was started for every alert of the snapshot.
C4_FaultIsolation ==
    [][(pc \in {"for", "send", "update"} /\ pc' \in SleepPcs) =>
          /\ pc = "for"
          /\ pc' = "sleep_done"
          /\ idx = Len(alerts) + 1
          /\ attempted = SnapshotIds(alerts)]_vars

\* the first alert's delivery failed and the second was committed in the same cycle
C4_Witness ==
    /\ pc = "for"
    /\ Len(alerts) >= 2
    /\ idx > Len(alerts)
    /\ alerts[1].id \in failedDelivery
    /\ alerts[2].id \in sentOk
    /\ alerts[2].id \in Stored
    /\ ~db_alerts[alerts[2].id].is_active

Fired(doc) == doc.triggered_at # None

\* C5: a fired alert is never active again, no later snapshot read returns it,
\* and the loop never handles (fetches, notifies, commits) an alert that is
\* stored as fired.
C5_TriggeredIsTerminal ==
    /\ [](Handling => (Current.id \in Stored => ~Fired(db_alerts[Current.id])))
    /\ [][/\ \A id \in Stored : Fired(db_alerts[id]) /\ id \in DOMAIN db_alerts' =>
                 Fired(db_alerts'[id]) /\ ~db_alerts'[id].is_active
          /\ SnapshotRead =>
                 \A id \in Stored : Fired(db_alerts[id]) => id \notin SnapshotIds(alerts')]_vars

\* a later cycle is handling another alert while a fired one is stored
C5_Witness ==
    /\ pc = "send"
    /\ \E id \in Stored : Fired(db_alerts[id]) /\ id \notin sentOk /\ id # Current.id

\* C6: every stored alert has triggered_at set iff is_active is False.
C6_TriggeredAtIffInactive ==
    \A id \in Stored : (db_alerts[id].triggered_at # None) <=> ~db_alerts[id].is_active

C6_Witness ==
    /\ \E id \in Stored : ~db_alerts[id].is_active /\ db_alerts[id].triggered_at = TS
    /\ \E id \in Stored : db_alerts[id].is_active /\ db_alerts[id].triggered_at = None

\* the trigger table of the evaluator, on the Close rows of the sample: the
\* change percent is 0 without a previous close, else (current - previous) /
\* previous * 100 with previous > 0 here
TableTriggered(alert, h) ==
    LET current == h[Len(h)]
        previous == h[1]
        hasPrevious == Len(h) = 2
    IN  CASE alert.alert_type = "price_above" -> current >= alert.value
          [] alert.alert_type = "price_below" -> current <= alert.value
          [] alert.alert_type = "percent_up" ->
                IF hasPrevious
                THEN (current - previous) * 100 >= alert.value * previous
                ELSE 0 >= alert.value
          [] alert.alert_type = "percent_down" ->
                IF hasPrevious
                THEN (current - previous) * 100 <= (0 - alert.value) * previous
                ELSE 0 <= 0 - alert.value
          [] OTHER -> FALSE

\* C7: whenever a sample is evaluated, the decision is the one of the table
\* (>= / <= with equality triggering), and a triggered alert is triggered by
\* the rule of its own kind.
C7_TriggerTable ==
    evOut.outcome = "evaluated" =>
        /\ evOut.triggered = TableTriggered(evAlert, evHist)
        /\ evOut.triggered => evOut.message.kind = evAlert.alert_type

\* a price_above alert at equality: current price = threshold
C7_Witness ==
    /\ evOut.outcome = "evaluated"
    /\ evAlert.alert_type = "price_above"
    /\ evHist[Len(evHist)] = evAlert.value
    /\ evOut.triggered

\* C8: with a single history row the change percent is 0, so a percent_up
\* alert and a percent_down alert trigger iff their threshold is <= 0.
C8_NoPreviousClose ==
    (evOut.outcome = "evaluated" /\ Len(evHist) = 1) =>
        /\ evOut.triggered => evOut.message.change = Rat(0, 1)
        /\ evAlert.alert_type \in {"percent_up", "percent_down"} =>
              (evOut.triggered <=> evAlert.value <= 0)

C8_Witness ==
    /\ evOut.outcome = "evaluated"
    /\ Len(evHist) = 1
    /\ evAlert.alert_type = "percent_up"
    /\ evAlert.value = 0
    /\ evOut.triggered

\* C9: without a configured bot the loop only alternates between the check and
\* the sleep: it holds no snapshot, starts no fetch, sends nothing, and the
\* store holds exactly what the CRUD layer put there (no alert is ever
\* changed); each of its steps leaves the store unchanged.
C9_IdleMode ==
    /\ [](~telegram_bot =>
            /\ pc \in {"top", "sleep_idle"}
            /\ alerts = <<>>
            /\ attempted = {} /\ sentOk = {} /\ failedDelivery = {} /\ commitFailed = {}
            /\ \A id \in Ids : delivered[id] = 0
            /\ \A id \in Stored : db_alerts[id].is_active /\ db_alerts[id].triggered_at = None)
    /\ [][(~telegram_bot /\ pc' # pc) =>
            /\ db_alerts' = db_alerts
            /\ (pc = "top" /\ pc' = "sleep_idle") \/ (pc = "sleep_idle" /\ pc' = "top")]_vars

\* an idle cycle is sleeping while an active alert is stored
C9_Witness ==
    /\ ~telegram_bot
    /\ pc = "sleep_idle"
    /\ \E id \in Stored : db_alerts[id].is_active

\* C10: whatever fails, the loop always reaches a sleep again and a new cycle
\* always starts again.
C10_LoopNeverStops ==
    /\ []<>(pc \in SleepPcs)
    /\ []<>(pc = "top")

\* the snapshot read failed in a cycle that follows a failed delivery and a failed commit
C10_Witness ==
    /\ pc = "sleep_err"
    /\ failedDelivery # {}
    /\ commitFailed # {}

\* C11: when the commit of update_one runs for an alert id that was deleted
\* after the snapshot was read, the step changes nothing in the collection,
\* raises nothing, and the for loop moves on to the next alert of the same
\* snapshot; no step of the program puts a deleted id back into the collection.
C11_CommitOnDeletedIsNoOp ==
    /\ [][(pc = "update" /\ pc' # pc /\ Current.id \notin Stored
              /\ commitFailed' = commitFailed) =>
            /\ db_alerts' = db_alerts
            /\ pc' = "for"
            /\ idx' = idx + 1
            /\ alerts' = alerts]_vars
    /\ [][\A id \in Ids :
            (id < nextId /\ id \notin Stored) => id \notin DOMAIN db_alerts']_vars

\* the notification went out, the alert was deleted meanwhile, the commit is
\* due and another alert of the snapshot is still to be handled
C11_Witness ==
    /\ pc = "update"
    /\ Current.id \in sentOk
    /\ Current.id \notin Stored
    /\ idx < Len(alerts)

\* C12 as stated: the snapshot read at the start of a cycle contains every
\* alert that is active in the collection at that moment, however many there are.
C12_SnapshotHoldsAllActive ==
    [][SnapshotRead =>
          \A id \in Stored : db_alerts[id].is_active => id \in SnapshotIds(alerts')]_vars

\* a step in which the handling of alert id fails: its fetch raises or gives
\* nothing to trigger on, its send raises, or its commit raises
FailedStep(id) ==
    /\ Handling
    /\ Current.id = id
    /\ \/ pc = "for" /\ pc' = "for"
       \/ pc = "send" /\ pc' = "for"
       \/ pc = "update" /\ pc' = "for" /\ db_alerts' = db_alerts

\* C13 as stated, for a price_above alert created last: if it is never deleted, the bot
\* is configured, cycles keep starting, and from some point on no step of its
\* handling fails, then it is eventually Triggered.
C13_NoAlertLost ==
    (<>[](LastAlert \in Stored /\ telegram_bot
             /\ db_alerts[LastAlert].alert_type = "price_above")
        /\ []<><<SnapshotRead>>_vars
        /\ <>[][~FailedStep(LastAlert)]_vars)
    => <>(LastAlert \in Stored /\ ~db_alerts[LastAlert].is_active)


\* the alert the for loop has just left behind
Previous == alerts[idx - 1]
\* the loop sent nothing and wrote nothing for alert a in this cycle, and will
\* not come back to it before the next snapshot
LeftAlone(a) ==
    /\ a.id \in attempted
    /\ a.id \notin sentOk \cup failedDelivery
    /\ message = NoMessage
    /\ a.id \in Stored => (db_alerts[a.id] = a /\ db_alerts[a.id].is_active)
    /\ \A j \in idx..Len(alerts) : alerts[j].id # a.id

\* C14: after a quote fetch that raised or returned an empty result, the for
\* loop is at the next alert; no send was attempted for the alert in this
\* cycle, its stored record equals the snapshot copy and is still active, and
\* the alert does not occur again in the rest of the snapshot.
C14_FetchFailureLeavesAlert ==
    outcome \in {"fetch_raised", "skip"} =>
        /\ pc = "for"
        /\ idx >= 2
        /\ fetched = <<>>
        /\ LeftAlone(Previous)

\* the fetch for the first of two alerts raised
C14_Witness ==
    /\ outcome = "fetch_raised"
    /\ idx = 2
    /\ Len(alerts) = 2
    /\ alerts[1].id \in Stored

\* C16: after an alert was evaluated on a fetched sample and not triggered, the
\* for loop is at the next alert; no send was attempted for the alert in this
\* cycle and its stored record equals the snapshot copy.
C16_NotTriggeredNothingFurther ==
    outcome = "not_triggered" =>
        /\ pc = "for"
        /\ idx >= 2
        /\ fetched # <<>>
        /\ ~DivisionRaises(fetched)
        /\ ~Evaluate(Previous, CurrentPrice(fetched), ChangePercent(fetched)).triggered
        /\ LeftAlone(Previous)

\* a price_above alert saw a price below its threshold
C16_Witness ==
    /\ outcome = "not_triggered"
    /\ Previous.alert_type = "price_above"
    /\ Previous.id \in Stored
    /\ CurrentPrice(fetched) < Previous.value

\* C19: after a sample whose previous close is 0 was fetched for an alert, the
\* pass over that alert ended in the raised division whatever the alert's kind:
\* the for loop is at the next alert, no send was attempted for the alert in
\* this cycle and its stored record equals the snapshot copy.
C19_ZeroPreviousCloseAbsorbed ==
    (Len(fetched) > 1 /\ fetched[Len(fetched) - 1] = 0) =>
        /\ outcome = "raise"
        /\ pc = "for"
        /\ idx >= 2
        /\ LeftAlone(Previous)

\* a price_above alert whose price condition holds on the sample, with another
\* alert of the snapshot still to be handled
C19_Witness ==
    /\ fetched = <<0, 1>>
    /\ Previous.alert_type = "price_above"
    /\ Previous.value <= CurrentPrice(fetched)
    /\ Previous.id \in Stored
    /\ idx <= Len(alerts)

\* C15: a cycle starts only when a sleep returns; a sleep is entered only from
\* the top of a cycle (idle mode, or the find raised) or from the for loop
\* after the last alert of the snapshot, by which time a fetch was started for
\* every alert of it; a sleep that returns leads to the top of the next cycle
\* and nowhere else; the snapshot is replaced only by the read at the top.
C15_OneSleepBetweenCycles ==
    [][/\ (pc' = "top" /\ pc # "top") => pc \in SleepPcs
       /\ (pc \in SleepPcs /\ pc' # pc) => pc' = "top"
       /\ (pc' \in SleepPcs /\ pc' # pc) =>
             \/ pc = "top" /\ pc' = "sleep_idle" /\ ~telegram_bot
             \/ pc = "top" /\ pc' = "sleep_err" /\ telegram_bot
             \/ /\ pc = "for" /\ pc' = "sleep_done"
                /\ idx > Len(alerts)
                /\ attempted = SnapshotIds(alerts)
       /\ (pc = "top" /\ pc' # pc) => pc' \in {"for", "sleep_idle", "sleep_err"}
       /\ (alerts' # alerts /\ alerts' # <<>>) => SnapshotRead]_vars

\* the sleep after a cycle that handled two alerts and lost a commit
C15_Witness ==
    /\ pc = "sleep_done"
    /\ commitFailed # {}
    /\ Cardinality(Stored) = 2

\* C17: the snapshot holds each alert id once and the for loop moves through it
\* forwards only; a fetch is started only for an alert with no fetch yet in
\* this cycle, a send only for an alert with no send attempt yet in this cycle,
\* a commit only after that one send succeeded; the loop waits on at most one
\* send at a time (it is at one position of one snapshot).
C17_HandledAtMostOnce ==
    /\ [](/\ \A i, j \in 1..Len(alerts) : alerts[i].id = alerts[j].id => i = j
          /\ pc = "for" => attempted = {alerts[i].id : i \in 1..(idx - 1)}
          /\ pc \in {"send", "update"} =>
                /\ idx <= Len(alerts)
                /\ attempted = {alerts[i].id : i \in 1..idx}
          /\ pc = "send" => Current.id \notin sentOk \cup failedDelivery
          /\ pc = "update" => Current.id \in sentOk /\ Current.id \notin failedDelivery)
    /\ [][(pc \in {"for", "send", "update"} /\ pc' \in {"for", "send", "update"}) =>
            /\ alerts' = alerts
            /\ idx' \in {idx, idx + 1}
            /\ pc' # "for" => idx' = idx
            /\ (pc # "for" /\ pc' = "for") => idx' = idx + 1]_vars

\* the send for the first alert failed and the second alert is being committed
C17_Witness ==
    /\ pc = "update"
    /\ idx = 2
    /\ alerts[1].id \in failedDelivery
    /\ alerts[2].id \in sentOk

\* the alert's kind is none of the four the if/elif chain tests
UnknownKind(doc) ==
    doc.alert_type \notin {"price_above", "price_below", "percent_up", "percent_down"}

\* C18 as stated: a stored alert of an unknown kind is active, has no
\* triggered_at and no delivered notification; the loop is never at the send
\* or the commit for such an alert; every snapshot read returns every stored
\* alert of an unknown kind.
C18_UnknownKindNeverTriggers ==
    /\ [](\A id \in Stored : UnknownKind(db_alerts[id]) =>
             /\ db_alerts[id].is_active
             /\ db_alerts[id].triggered_at = None
             /\ delivered[id] = 0)
    /\ [](pc \in {"send", "update"} => ~UnknownKind(Current))
    /\ [][SnapshotRead =>
            \A id \in Stored : UnknownKind(db_alerts[id]) => id \in SnapshotIds(alerts')]_vars

\* C20: a step of the loop leaves the set of stored ids as it is; whenever a
\* stored record changes, the step is the commit for the alert the loop is at,
\* the record is the one with that alert's id, the id is in the snapshot of
\* the current cycle, and the new record differs from the old one in is_active
\* (now False) and triggered_at (now set) only.
C20_OnlyTheTriggerCommit ==
    [][/\ (pc' # pc \/ idx' # idx) => DOMAIN db_alerts' = DOMAIN db_alerts
       /\ \A id \in Stored \cap DOMAIN db_alerts' :
             db_alerts'[id] # db_alerts[id] =>
                /\ pc = "update"
                /\ id = Current.id
                /\ id \in SnapshotIds(alerts)
                /\ db_alerts'[id] = [db_alerts[id] EXCEPT !.is_active = FALSE,
                                                          !.triggered_at = TS]]_vars

\* the second alert of the snapshot was committed, the first is untouched
C20_Witness ==
    /\ pc = "for"
    /\ idx = 3
    /\ alerts[2].id \in sentOk
    /\ alerts[2].id \in Stored
    /\ ~db_alerts[alerts[2].id].is_active
    /\ alerts[1].id \in Stored
    /\ db_alerts[alerts[1].id] = alerts[1]

====
